---- MODULE Spec2Model ----
(***************************************************************************)
(* Model of the librespeed exporter's remote-write transmitter             *)
(* (src/main.go): createTimeSeries, sendToRemoteWrite, retryDelayFunc and  *)
(* sendToRemoteWriteWithRetry.                                             *)
(*                                                                         *)
(* Texts (error messages, URLs, HTTP status lines, response bodies) are    *)
(* sequences of one-character strings, so that strings.Contains is a real  *)
(* substring search.  Go's int is the 64-bit two's-complement integer of   *)
(* the windows/amd64 build; such a value is the set of its one-bits        *)
(* (positions 0..63), so that shifts and sums wrap as the machine's do.    *)
(***************************************************************************)
EXTENDS Integers, Sequences, FiniteSets, TLC

\* ------------------------------------------------------------------ bounds

\* Largest maxRetries the caller passes in the model.
MaxRetries == 3
\* Smallest maxRetries the caller passes is -MinRetriesBelow.
MinRetriesBelow == 1
\* Largest number of series in a batch.
MaxSeries == 2
\* Largest retry index given to retryDelayFunc on its own.
MaxAttemptIndex == 66
\* rand.Intn(n) is enumerated in full for n < 2^(JitterExact+1).
JitterExact == 4

\* ------------------------------------------------------------------ texts

Digits == <<"0","1","2","3","4","5","6","7","8","9">>

RECURSIVE NatText(_)
\* fmt's %d of a natural number.
NatText(n) ==
  IF n < 10 THEN <<Digits[n + 1]>>
  ELSE NatText(n \div 10) \o <<Digits[(n % 10) + 1]>>

\* fmt's %d of an int.
IntText(n) == IF n < 0 THEN <<"-">> \o NatText(0 - n) ELSE NatText(n)

\* strings.Contains(s, sub)
Contains(s, sub) ==
  \E i \in 0..(Len(s) - Len(sub)) : \A j \in 1..Len(sub) : s[i + j] = sub[j]

\* 'no time series data to send'
ErrEmptyBatch ==
  <<"n","o"," ","t","i","m","e"," ","s","e","r","i","e","s"," ","d","a","t","a"," ","t","o"," ","s","e","n","d">>
\* 'failed to marshal protobuf: '
ErrMarshalPrefix ==
  <<"f","a","i","l","e","d"," ","t","o"," ","m","a","r","s","h","a","l"," ","p","r","o","t","o","b","u","f",":"," ">>
\* 'failed to create HTTP request: '
ErrCreatePrefix ==
  <<"f","a","i","l","e","d"," ","t","o"," ","c","r","e","a","t","e"," ","H","T","T","P"," ","r","e","q","u","e","s","t",":"," ">>
\* 'failed to send HTTP request: '
ErrSendPrefix ==
  <<"f","a","i","l","e","d"," ","t","o"," ","s","e","n","d"," ","H","T","T","P"," ","r","e","q","u","e","s","t",":"," ">>
\* 'remote_write failed: '
ErrRemotePrefix ==
  <<"r","e","m","o","t","e","_","w","r","i","t","e"," ","f","a","i","l","e","d",":"," ">>
\* ' - '
ErrRemoteSep ==
  <<" ","-"," ">>
\* 'failed after '
ErrFailedAfter ==
  <<"f","a","i","l","e","d"," ","a","f","t","e","r"," ">>
\* ' attempts, last error: '
ErrAttemptsLast ==
  <<" ","a","t","t","e","m","p","t","s",","," ","l","a","s","t"," ","e","r","r","o","r",":"," ">>
\* '<nil>'
NilText ==
  <<"<","n","i","l",">">>

\* An error value: nil, or an error with its Error() text.
NilErr == [nil |-> TRUE, text |-> <<>>]
Errorf(t) == [nil |-> FALSE, text |-> t]
\* fmt's %v of an error value.
ErrText(e) == IF e.nil THEN NilText ELSE e.text

\* ------------------------------------------------- the environment's texts

\* url.Parse's error text for a URL with no scheme: 'parse "<url>": missing protocol scheme'
ParsePrefix ==
  <<"p","a","r","s","e"," ","\"">>
ParseSuffix ==
  <<"\"",":"," ","m","i","s","s","i","n","g"," ","p","r","o","t","o","c","o","l"," ","s","c","h","e","m","e">>
\* http.Client.Do's error text: 'Post "<url>": <cause>'
PostPrefix ==
  <<"P","o","s","t"," ","\"">>
PostSep ==
  <<"\"",":"," ">>
\* 'http://h:'
SchemeHost ==
  <<"h","t","t","p",":","/","/","h",":">>
\* '/w'
UrlPath ==
  <<"/","w">>
\* 'connection refused'
CauseRefused ==
  <<"c","o","n","n","e","c","t","i","o","n"," ","r","e","f","u","s","e","d">>
\* 'context deadline exceeded'
CauseTimeout ==
  <<"c","o","n","t","e","x","t"," ","d","e","a","d","l","i","n","e"," ","e","x","c","e","e","d","e","d">>
\* 'size mismatch'
CauseMarshal ==
  <<"s","i","z","e"," ","m","i","s","m","a","t","c","h">>
\* The reason phrase of a status code (net/http's StatusText), as the Go
\* server and HTTP/2 put it in resp.Status.
StatusText(code) ==
  CASE code = 101 -> <<"S","w","i","t","c","h","i","n","g"," ","P","r","o","t","o","c","o","l","s">>  \* Switching Protocols
    [] code = 200 -> <<"O","K">>  \* OK
    [] code = 301 -> <<"M","o","v","e","d"," ","P","e","r","m","a","n","e","n","t","l","y">>  \* Moved Permanently
    [] code = 400 -> <<"B","a","d"," ","R","e","q","u","e","s","t">>  \* Bad Request
    [] code = 401 -> <<"U","n","a","u","t","h","o","r","i","z","e","d">>  \* Unauthorized
    [] code = 403 -> <<"F","o","r","b","i","d","d","e","n">>  \* Forbidden
    [] code = 404 -> <<"N","o","t"," ","F","o","u","n","d">>  \* Not Found
    [] code = 500 -> <<"I","n","t","e","r","n","a","l"," ","S","e","r","v","e","r"," ","E","r","r","o","r">>  \* Internal Server Error

\* 'id=14031'
BodyDigits ==
  <<"i","d","=","1","4","0","3","1">>

\* The endpoint URLs of the model: well-formed 'http://h:<port>/w', or the
\* scheme-less ':<port>' that http.NewRequestWithContext rejects.
Urls ==
  { [valid |-> TRUE, port |-> 9090], [valid |-> TRUE, port |-> 4000],
    [valid |-> FALSE, port |-> 9090] }
UrlText(u) ==
  IF u.valid THEN SchemeHost \o NatText(u.port) \o UrlPath
  ELSE <<":">> \o NatText(u.port)

\* What the network gives one request: a transport error with its cause, or
\* a response with status code and body.  (The client consumes the other
\* 1xx responses itself and hands 101 to the caller.)
StatusCodes == {101, 200, 301, 400, 401, 403, 404, 500}
Bodies == {<<>>, BodyDigits}
TransportCauses == {CauseRefused, CauseTimeout}
\* processed tells whether the endpoint took the batch in: it did when it
\* answers 2xx, it did not when the connection was refused, and it may or may
\* not have when the sender's wait for the response timed out.
NetOutcomes ==
  { [failed |-> TRUE, cause |-> CauseRefused, code |-> 0, body |-> <<>>,
     processed |-> FALSE] }
  \cup
  { [failed |-> TRUE, cause |-> CauseTimeout, code |-> 0, body |-> <<>>,
     processed |-> p] : p \in BOOLEAN }
  \cup
  { [failed |-> FALSE, cause |-> <<>>, code |-> c, body |-> b,
     processed |-> (c >= 200 /\ c < 300)] : c \in StatusCodes, b \in Bodies }

\* What proto Marshal gives for a batch: no error, or an error with its text.
MarshalOutcomes == {NilErr, Errorf(CauseMarshal)}

\* The (username, password) pairs the caller passes.
Credentials ==
  { [username |-> <<"u">>, password |-> <<"p",":","q">>],
    [username |-> <<"a",":","b">>, password |-> <<"p">>] }

\* ------------------------------------------------------- 64-bit integers

\* Width of Go's int on the build's platform.
WordBits == 64
BitPos == 0..(WordBits - 1)
Bit(x, i) == IF i \in x THEN 1 ELSE 0

RECURSIVE Pow2(_)
Pow2(k) == IF k = 0 THEN 1 ELSE 2 * Pow2(k - 1)

\* The int whose value is the small natural n (n < 2^30).
FromNat(n) == {i \in 0..29 : (n \div Pow2(i)) % 2 = 1}

\* 1 << k for a shift count k >= 0: bits shifted past the width are lost.
Shl1(k) == IF k \in BitPos THEN {k} ELSE {}

IsNegative(x) == (WordBits - 1) \in x

\* The carry into bit i of x + y: some lower position j generates a carry
\* (both bits set) and every position between j and i passes it on (at
\* least one bit set).
Carry(x, y, i) ==
  IF \E j \in 0..(i - 1) :
       /\ j \in x
       /\ j \in y
       /\ \A k \in (j + 1)..(i - 1) : k \in x \/ k \in y
  THEN 1 ELSE 0

\* x + y, wrapping modulo 2^WordBits.
Add64(x, y) == {i \in BitPos : (Bit(x, i) + Bit(y, i) + Carry(x, y, i)) % 2 = 1}

\* x > y as unsigned numbers.
GtUnsigned(x, y) ==
  \E i \in BitPos :
    /\ i \in x
    /\ i \notin y
    /\ \A j \in BitPos : j > i => (j \in x <=> j \in y)

\* x > y as signed (two's-complement) numbers.
Gt64(x, y) ==
  IF IsNegative(x) # IsNegative(y) THEN IsNegative(y) ELSE GtUnsigned(x, y)

\* rand.Intn(n) panics unless n > 0.
IntnPanics(n) == n = {} \/ IsNegative(n)

\* The highest one-bit of a non-zero x.
TopBit(x) == CHOOSE i \in x : \A j \in x : j <= i

\* The values rand.Intn(n) can return (0 <= v < n): all of them while
\* n < 2^(JitterExact+1), and beyond that 0, 1, n/2 (for n a power of two),
\* n-1 (likewise) and n with its highest bit cleared.
IntnValues(n) ==
  LET k == TopBit(n)
      cand == IF k <= JitterExact THEN SUBSET (0..k)
              ELSE { {}, {0}, {k - 1}, 0..(k - 1), n \ {k} }
  IN {v \in cand : Gt64(n, v)}

\* ------------------------------------------------------------ retry delay

\* The cap on the backoff, in seconds.
MaxBackoffSeconds == 30

\* retryDelayFunc panics when the shift count is negative or rand.Intn
\* rejects its argument.
retryDelayPanics(attempt) ==
  attempt - 1 < 0 \/ IntnPanics(Shl1(attempt - 1))

\* Mutant of retryDelayFunc: the cap is not applied.
retryDelayFunc_NoCap(attempt, jitter) == Add64(Shl1(attempt - 1), jitter)

\* Mutant of retryDelayFunc: the shifts are by attempt instead of attempt-1.
retryDelayFunc_ShiftByAttempt(attempt, jitter) ==
  LET backoffSeconds == Add64(Shl1(attempt), jitter)
  IN IF Gt64(backoffSeconds, FromNat(MaxBackoffSeconds))
     THEN FromNat(MaxBackoffSeconds)
     ELSE backoffSeconds

\* retryDelayFunc(attempt) with rand.Intn's draw given as jitter.  The value
\* is the number of seconds; the time.Duration is that many time.Second.
retryDelayFunc(attempt, jitter) ==
  LET backoffSeconds == Add64(Shl1(attempt - 1), jitter)
  IN IF Gt64(backoffSeconds, FromNat(MaxBackoffSeconds))
     THEN FromNat(MaxBackoffSeconds)
     ELSE backoffSeconds

\* ------------------------------------------------------------ time series

MetricNames ==
  <<"librespeed_download_mbps", "librespeed_upload_mbps",
    "librespeed_ping_ms", "librespeed_jitter_ms">>

\* Mutant of createTimeSeries: the instance label comes first.
createTimeSeries_InstanceFirst(metric, value, ts, serverURL, instance) ==
  [Labels |-> << [Name |-> "instance", Value |-> instance],
                 [Name |-> "__name__", Value |-> metric],
                 [Name |-> "server_url", Value |-> serverURL] >>,
   Samples |-> << [Value |-> value, Timestamp |-> ts] >>]

createTimeSeries(metric, value, ts, serverURL, instance) ==
  [Labels |-> << [Name |-> "__name__", Value |-> metric],
                 [Name |-> "server_url", Value |-> serverURL],
                 [Name |-> "instance", Value |-> instance] >>,
   Samples |-> << [Value |-> value, Timestamp |-> ts] >>]

\* The batches handed to the transmitter: n series built by createTimeSeries.
Batch(n) ==
  [i \in 1..n |->
     createTimeSeries(MetricNames[((i - 1) % Len(MetricNames)) + 1],
                      i, 1000, "http://example.com", "host1")]

\* ----------------------------------------------------- one delivery attempt

\* Mutant of EmptyBatch: the guard never fires.
EmptyBatch_NeverFires(batch) == FALSE

\* The guard at the head of sendToRemoteWrite.
EmptyBatch(batch) == Len(batch) = 0

\* Mutant of TsList: the last series is left out.
TsList_DropsLast(batch) == [i \in 1..(Len(batch) - 1) |-> batch[i]]

\* Lines 233-243: the loop copying every series, in order, into tsList.
TsList(batch) == [i \in 1..Len(batch) |-> batch[i]]

\* The request body: the batch as a WriteRequest, marshalled and
\* snappy-encoded.
Payload(batch) == [encoding |-> "snappy", Timeseries |-> TsList(batch)]

\* http.Request.SetBasicAuth: the Authorization header 'Basic ' followed by
\* the base64 text of username ':' password.  The base64 text is kept as the
\* characters it encodes (decoding it gives exactly these back).
SetBasicAuth(username, password) ==
  [scheme |-> "Basic", credentials |-> username \o <<":">> \o password]

\* http.Request.BasicAuth, as the receiving server reads the header: the
\* credentials are cut at their first colon.
BasicAuth(auth) ==
  LET c == auth.credentials
      colons == {i \in 1..Len(c) : c[i] = ":"}
  IN IF auth.scheme # "Basic" \/ colons = {}
     THEN [ok |-> FALSE, username |-> <<>>, password |-> <<>>]
     ELSE LET i == CHOOSE k \in colons : \A j \in colons : k <= j
          IN [ok |-> TRUE, username |-> SubSeq(c, 1, i - 1),
              password |-> SubSeq(c, i + 1, Len(c))]

NoAuth == [scheme |-> "", credentials |-> <<>>]

\* No request was built.
NoRequest ==
  [method |-> "", url |-> <<>>, ContentEncoding |-> "", ContentType |-> "",
   RemoteWriteVersion |-> "", Authorization |-> NoAuth, body |-> Payload(<<>>)]

\* Mutant of NewRequest: the protocol-version header is not set.
NewRequest_NoVersionHeader(u, username, password, batch) ==
  [method |-> "POST", url |-> UrlText(u),
   ContentEncoding |-> "snappy",
   ContentType |-> "application/x-protobuf",
   RemoteWriteVersion |-> "",
   Authorization |-> SetBasicAuth(username, password),
   body |-> Payload(batch)]

\* Lines 254-269: the request sendToRemoteWrite builds.
NewRequest(u, username, password, batch) ==
  [method |-> "POST", url |-> UrlText(u),
   ContentEncoding |-> "snappy",
   ContentType |-> "application/x-protobuf",
   RemoteWriteVersion |-> "0.1.0",
   Authorization |-> SetBasicAuth(username, password),
   body |-> Payload(batch)]

\* sendToRemoteWrite: the error returned, the last stage reached, the
\* response's status code (0 when no response was received), the request
\* handed to the HTTP client (NoRequest when none was) and whether the
\* endpoint took the batch in.  marshal is what
\* req.Marshal() gives for the batch, net what the network gives the request.
sendToRemoteWrite(u, username, password, batch, marshal, net) ==
  IF EmptyBatch(batch)
  THEN [err |-> Errorf(ErrEmptyBatch), stage |-> "empty", code |-> 0, req |-> NoRequest,
        accepted |-> FALSE]
  ELSE IF ~marshal.nil
  THEN [err |-> Errorf(ErrMarshalPrefix \o ErrText(marshal)),
        stage |-> "marshal", code |-> 0, req |-> NoRequest,
        accepted |-> FALSE]
  ELSE IF ~u.valid
  THEN [err |-> Errorf(ErrCreatePrefix \o ParsePrefix \o UrlText(u) \o ParseSuffix),
        stage |-> "newrequest", code |-> 0, req |-> NoRequest,
        accepted |-> FALSE]
  ELSE IF net.failed
  THEN [err |-> Errorf(ErrSendPrefix \o PostPrefix \o UrlText(u) \o PostSep \o net.cause),
        stage |-> "transport", code |-> 0,
        req |-> NewRequest(u, username, password, batch),
        accepted |-> net.processed]
  ELSE IF net.code >= 300
  THEN [err |-> Errorf(ErrRemotePrefix \o NatText(net.code) \o <<" ">> \o StatusText(net.code)
                         \o ErrRemoteSep \o net.body),
        stage |-> "response", code |-> net.code,
        req |-> NewRequest(u, username, password, batch),
        accepted |-> net.processed]
  ELSE [err |-> NilErr, stage |-> "response", code |-> net.code,
        req |-> NewRequest(u, username, password, batch),
        accepted |-> net.processed]

\* ------------------------------------------------------------- retry loop

\* Mutant of NonRetryable: the test for 403 is missing.
NonRetryable_Without403(err) ==
  \/ Contains(ErrText(err), <<"4","0","1">>)
  \/ Contains(ErrText(err), <<"4","0","0">>)
  \/ Contains(ErrText(err), <<"4","0","4">>)

\* The test that ends the retry loop early.
NonRetryable(err) ==
  \/ Contains(ErrText(err), <<"4","0","1">>)
  \/ Contains(ErrText(err), <<"4","0","3">>)
  \/ Contains(ErrText(err), <<"4","0","0">>)
  \/ Contains(ErrText(err), <<"4","0","4">>)

\* Mutant of AfterAttempt: a nil error does not end the loop.
AfterAttempt_NoReturnOnSuccess(err) ==
  IF NonRetryable(err) THEN "break" ELSE "loop"

\* Where the loop body goes with the attempt's error: return nil ("done"),
\* leave the loop ("break") or go round once more ("loop").
AfterAttempt(err) ==
  IF err.nil THEN "done"
  ELSE IF NonRetryable(err) THEN "break"
  ELSE "loop"

\* The error sendToRemoteWriteWithRetry returns after its loop.
FailedAfter(retries, last) ==
  Errorf(ErrFailedAfter \o IntText(retries + 1) \o ErrAttemptsLast \o ErrText(last))

VARIABLES
  pc,          \* where the call stands
  url,         \* argument: the endpoint
  username,    \* argument
  password,    \* argument
  series,      \* argument: the batch
  maxRetries,  \* argument
  marshal,     \* what req.Marshal() gives for the batch
  attempt,     \* the loop variable (the argument, for retryDelayFunc alone)
  lastErr,     \* the local lastErr
  delay,       \* the local delay (seconds), {} outside its block
  result,      \* what the call returned
  trace,       \* history: the attempts made and delays waited, in order
  call,        \* a function called on its own: its name, arguments and environment
  ret          \* what that function returned

vars == <<pc, url, username, password, series, maxRetries, marshal, attempt,
          lastErr, delay, result, trace, call, ret>>

\* The arguments of sendToRemoteWriteWithRetry and the batch's marshal outcome.
retryArgs == <<url, username, password, series, maxRetries, marshal>>
\* The variables of the functions called on their own.
pureVars == <<call, ret>>
NoCall == [fn |-> "none"]
NoRet == [set |-> FALSE]

NoResult == [set |-> FALSE, err |-> NilErr]
Returned(e) == [set |-> TRUE, err |-> e]

AttemptEvent(r) ==
  [ev |-> "attempt", stage |-> r.stage, code |-> r.code, ok |-> r.err.nil,
   req |-> r.req, accepted |-> r.accepted]
SleepEvent ==
  [ev |-> "sleep", stage |-> "", code |-> 0, ok |-> FALSE, req |-> NoRequest,
   accepted |-> FALSE]

\* Mutant of NeedsDelay: the first retry does not wait.
NeedsDelay_FromSecondRetry(a) == a > 1

\* Line 307: a delay is waited before every attempt but the first.
NeedsDelay(a) == a > 0

\* State at entry of sendToRemoteWriteWithRetry.
Init ==
  /\ pc = "loop"
  /\ url \in Urls
  /\ \E c \in Credentials : username = c.username /\ password = c.password
  /\ series \in {Batch(0), Batch(MaxSeries)}
  /\ maxRetries \in (0 - MinRetriesBelow)..MaxRetries
  /\ marshal \in MarshalOutcomes
  /\ attempt = 0
  /\ lastErr = NilErr
  /\ delay = {}
  /\ result = NoResult
  /\ trace = <<>>
  /\ call = NoCall
  /\ ret = NoRet

\* Lines 307-311: before a retry, compute the delay and sleep.
Backoff ==
  /\ pc = "loop"
  /\ attempt <= maxRetries
  /\ NeedsDelay(attempt)
  /\ IF retryDelayPanics(attempt)
     THEN pc' = "panic" /\ UNCHANGED <<delay, trace>>
     ELSE /\ \E jitter \in IntnValues(Shl1(attempt - 1)) :
               delay' = retryDelayFunc(attempt, jitter)
          /\ trace' = Append(trace, SleepEvent)
          /\ pc' = "send"
  /\ UNCHANGED <<retryArgs, attempt, lastErr, result, pureVars>>

\* Lines 313-329: one delivery attempt and what the loop does with its error.
Attempt ==
  /\ \/ pc = "send"
     \/ pc = "loop" /\ attempt <= maxRetries /\ ~NeedsDelay(attempt)
  /\ \E net \in NetOutcomes :
       LET r == sendToRemoteWrite(url, username, password, series, marshal, net) IN
       /\ trace' = Append(trace, AttemptEvent(r))
       /\ pc' = AfterAttempt(r.err)
       /\ IF pc' = "done"
          THEN /\ result' = Returned(NilErr)
               /\ UNCHANGED <<lastErr, attempt>>
          ELSE /\ lastErr' = r.err
               /\ result' = result
               /\ attempt' = IF pc' = "loop" THEN attempt + 1 ELSE attempt
  /\ delay' = {}
  /\ UNCHANGED <<retryArgs, pureVars>>

\* Line 332: the loop ended without a success.
ReturnFailed ==
  /\ \/ pc = "break"
     \/ pc = "loop" /\ attempt > maxRetries
  /\ result' = Returned(FailedAfter(maxRetries, lastErr))
  /\ pc' = "done"
  /\ UNCHANGED <<retryArgs, attempt, lastErr, delay, trace, pureVars>>

Next == Backoff \/ Attempt \/ ReturnFailed

Spec == Init /\ [][Next]_vars

\* ------------------------------------------- retryDelayFunc on its own

InitDelay ==
  /\ pc = "arg"
  /\ attempt \in 1..MaxAttemptIndex
  /\ url = [valid |-> TRUE, port |-> 9090]
  /\ username = <<>>
  /\ password = <<>>
  /\ call = NoCall
  /\ ret = NoRet
  /\ series = Batch(0)
  /\ maxRetries = 0
  /\ marshal = NilErr
  /\ lastErr = NilErr
  /\ delay = {}
  /\ result = NoResult
  /\ trace = <<>>

CallRetryDelay ==
  /\ pc = "arg"
  /\ IF retryDelayPanics(attempt)
     THEN pc' = "panic" /\ delay' = delay
     ELSE /\ \E jitter \in IntnValues(Shl1(attempt - 1)) :
               delay' = retryDelayFunc(attempt, jitter)
          /\ pc' = "delayed"
  /\ UNCHANGED <<retryArgs, attempt, lastErr, result, trace, pureVars>>

\* Lines 306-309: the loop comes to its next retry; ret keeps the retry
\* index and the delay of the one before.
NextRetry ==
  /\ pc = "delayed"
  /\ attempt < MaxAttemptIndex
  /\ ret' = [set |-> TRUE, attempt |-> attempt, delay |-> delay]
  /\ attempt' = attempt + 1
  /\ pc' = "arg"
  /\ UNCHANGED <<retryArgs, lastErr, delay, result, trace, call>>

NextDelay == CallRetryDelay \/ NextRetry

SpecDelay == InitDelay /\ [][NextDelay]_vars

\* ------------------------------------------------------------ runLibrespeed

MaxResults == 2    \* longest result array the tool prints
MaxLabels == 3     \* longest label sequence looked up

ArgTelemetryLevel == <<"-","-","t","e","l","e","m","e","t","r","y","-","l","e","v","e","l">>
ArgBasic == <<"b","a","s","i","c">>
ArgJson == <<"-","-","j","s","o","n">>
ArgVerbose == <<"-","-","v","e","r","b","o","s","e">>
ArgLocalJson == <<"-","-","l","o","c","a","l","-","j","s","o","n">>
ArgServer == <<"-","-","s","e","r","v","e","r">>
ErrRunPrefix == <<"f","a","i","l","e","d"," ","t","o"," ","r","u","n"," ","l","i","b","r","e","s","p","e","e","d","-","c","l","i",":"," ">>
ErrParsePrefix == <<"f","a","i","l","e","d"," ","t","o"," ","p","a","r","s","e"," ","J","S","O","N",":"," ">>
ErrNoResults == <<"n","o"," ","r","e","s","u","l","t","s"," ","r","e","t","u","r","n","e","d"," ","f","r","o","m"," ","l","i","b","r","e","s","p","e","e","d","-","c","l","i">>
CauseCommand == <<"c","o","m","m","a","n","d"," ","f","a","i","l","e","d",":"," ","e","x","i","t"," ","s","t","a","t","u","s"," ","1">>
CauseSyntax == <<"i","n","v","a","l","i","d"," ","c","h","a","r","a","c","t","e","r"," ","'","i","'"," ","l","o","o","k","i","n","g"," ","f","o","r"," ","b","e","g","i","n","n","i","n","g"," ","o","f"," ","v","a","l","u","e">>
CauseNotArray == <<"j","s","o","n",":"," ","c","a","n","n","o","t"," ","u","n","m","a","r","s","h","a","l"," ","o","b","j","e","c","t"," ","i","n","t","o"," ","G","o"," ","v","a","l","u","e"," ","o","f"," ","t","y","p","e"," ","[","]","m","a","i","n",".","L","i","b","r","e","s","p","e","e","d","R","e","s","u","l","t">>
CauseNotObject == <<"j","s","o","n",":"," ","c","a","n","n","o","t"," ","u","n","m","a","r","s","h","a","l"," ","s","t","r","i","n","g"," ","i","n","t","o"," ","G","o"," ","v","a","l","u","e"," ","o","f"," ","t","y","p","e"," ","m","a","i","n",".","L","i","b","r","e","s","p","e","e","d","R","e","s","u","l","t">>
CauseBadField == <<"j","s","o","n",":"," ","c","a","n","n","o","t"," ","u","n","m","a","r","s","h","a","l"," ","s","t","r","i","n","g"," ","i","n","t","o"," ","G","o"," ","s","t","r","u","c","t"," ","f","i","e","l","d"," ","L","i","b","r","e","s","p","e","e","d","R","e","s","u","l","t",".","d","o","w","n","l","o","a","d"," ","o","f"," ","t","y","p","e"," ","f","l","o","a","t","6","4">>

\* strings.HasPrefix
HasPrefix(s, prefix) ==
  Len(s) >= Len(prefix) /\ SubSeq(s, 1, Len(prefix)) = prefix

\* The server-list paths and the optional server IDs a caller passes.
LocalJSONPaths == {<<>>, <<"s",".","j","s","o","n">>}
ServerIDs ==
  { [present |-> FALSE, id |-> 0], [present |-> TRUE, id |-> 1],
    [present |-> TRUE, id |-> 25] }

\* The elements the tool's output array can hold: two result objects, the
\* JSON null, a JSON string, and an object whose download is a string.
\* Numbers are the decimal tokens of the output, in hundredths.
Elements ==
  { [kind |-> "object", download |-> 10050, upload |-> 5025, ping |-> 1010,
     jitter |-> 25, id |-> 1, url |-> "http://a.example"],
    [kind |-> "object", download |-> 80000, upload |-> 0 - 100, ping |-> 300,
     jitter |-> 7, id |-> 2, url |-> "http://b.example"],
    [kind |-> "null", download |-> 0, upload |-> 0, ping |-> 0,
     jitter |-> 0, id |-> 0, url |-> ""],
    [kind |-> "string", download |-> 0, upload |-> 0, ping |-> 0,
     jitter |-> 0, id |-> 0, url |-> ""],
    [kind |-> "badfield", download |-> 0, upload |-> 5025, ping |-> 1010,
     jitter |-> 25, id |-> 1, url |-> "http://a.example"] }

\* What the tool prints: `invalid json`, `null`, `{}`, or an array.
ToolOutputs ==
  { [kind |-> k, elems |-> <<>>] : k \in {"garbage", "null", "object"} }
  \cup { [kind |-> "array", elems |-> e] :
           e \in UNION { [1..n -> Elements] : n \in 0..MaxResults } }

\* What runner.Run gives: output bytes and an error (a runner may give both).
RunOutcomes ==
  { [err |-> e, output |-> o] : e \in {NilErr, Errorf(CauseCommand)}, o \in ToolOutputs }

ZeroResult ==
  [Download |-> 0, Upload |-> 0, Ping |-> 0, Jitter |-> 0,
   Server |-> [ID |-> 0, URL |-> ""]]
NilResult == [nil |-> TRUE, val |-> ZeroResult]

\* json.Unmarshal of one array element into a LibrespeedResult: null leaves
\* the zero value, an object sets the fields.
DecodeElement(e) ==
  IF e.kind = "object"
  THEN [Download |-> e.download, Upload |-> e.upload, Ping |-> e.ping,
        Jitter |-> e.jitter, Server |-> [ID |-> e.id, URL |-> e.url]]
  ELSE ZeroResult

\* json.Unmarshal(output, &results) for results a nil []LibrespeedResult.
Unmarshal(output) ==
  IF output.kind = "garbage"
  THEN [err |-> Errorf(CauseSyntax), results |-> <<>>]
  ELSE IF output.kind = "null"
  THEN [err |-> NilErr, results |-> <<>>]
  ELSE IF output.kind = "object"
  THEN [err |-> Errorf(CauseNotArray), results |-> <<>>]
  ELSE LET bad == {i \in 1..Len(output.elems) :
                     output.elems[i].kind \in {"string", "badfield"}}
           decoded == [i \in 1..Len(output.elems) |-> DecodeElement(output.elems[i])]
       IN IF bad = {}
          THEN [err |-> NilErr, results |-> decoded]
          ELSE LET i == CHOOSE k \in bad : \A j \in bad : k <= j
               IN [err |-> Errorf(IF output.elems[i].kind = "string"
                                  THEN CauseNotObject ELSE CauseBadField),
                   results |-> decoded]

\* Mutant of AddServer: the server ID alone decides.
AddServer_IdAlone(localJSONPath, serverID) == serverID.present

\* Line 169: the condition under which '--server <id>' is passed.
AddServer(localJSONPath, serverID) == serverID.present /\ localJSONPath # <<>>

BaseArgs == <<ArgTelemetryLevel, ArgBasic, ArgJson, ArgVerbose>>

\* Lines 167-173: the argument list.
Args(localJSONPath, serverID) ==
  IF AddServer(localJSONPath, serverID)
  THEN BaseArgs \o <<ArgLocalJson, localJSONPath, ArgServer, IntText(serverID.id)>>
  ELSE IF localJSONPath # <<>>
  THEN BaseArgs \o <<ArgLocalJson, localJSONPath>>
  ELSE BaseArgs

\* Mutant of RunFailed: the runner's error is ignored.
RunFailed_Ignored(run) == FALSE

\* Line 179.
RunFailed(run) == ~run.err.nil

\* Mutant of FirstResult: the last element is taken.
FirstResult_Last(results) == results[Len(results)]

\* Line 197.
FirstResult(results) == results[1]

\* runLibrespeed: the arguments handed to the runner, whether the output was
\* given to json.Unmarshal, and the result and error returned.
runLibrespeed(localJSONPath, serverID, run) ==
  LET args == Args(localJSONPath, serverID)
      u == Unmarshal(run.output)
  IN IF RunFailed(run)
     THEN [args |-> args, parsed |-> FALSE, result |-> NilResult,
           err |-> Errorf(ErrRunPrefix \o ErrText(run.err))]
     ELSE IF ~u.err.nil
     THEN [args |-> args, parsed |-> TRUE, result |-> NilResult,
           err |-> Errorf(ErrParsePrefix \o ErrText(u.err))]
     ELSE IF Len(u.results) = 0
     THEN [args |-> args, parsed |-> TRUE, result |-> NilResult,
           err |-> Errorf(ErrNoResults)]
     ELSE [args |-> args, parsed |-> TRUE,
           result |-> [nil |-> FALSE, val |-> FirstResult(u.results)],
           err |-> NilErr]

\* ------------------------------------------------------ validateLogFilePath

ErrLogPathEmpty == <<"l","o","g"," ","f","i","l","e"," ","p","a","t","h"," ","c","a","n","n","o","t"," ","b","e"," ","e","m","p","t","y">>
ErrLogDirPrefix == <<"l","o","g"," ","f","i","l","e"," ","d","i","r","e","c","t","o","r","y"," ","d","o","e","s"," ","n","o","t"," ","e","x","i","s","t",":"," ">>

\* The log file paths given: none, a bare file name, a file in a directory.
LogPaths == {<<>>, <<"x",".","l","o","g">>, <<"/","d","/","x",".","l","o","g">>}

\* What os.Stat(dir) gives: a FileInfo (a directory or not) and no error, or
\* no FileInfo with an error that is ErrNotExist, or no FileInfo with
\* another error (permission denied, a path through a regular file).
StatOutcomes ==
  { [err |-> "none", isDir |-> TRUE], [err |-> "none", isDir |-> FALSE],
    [err |-> "notexist", isDir |-> FALSE], [err |-> "other", isDir |-> FALSE] }

\* filepath.Dir for a clean slash-separated path: all but the last element,
\* '.' when there is no separator, '/' for a file in the root.
Dir(path) ==
  LET slashes == {i \in 1..Len(path) : path[i] = "/"}
  IN IF slashes = {} THEN <<".">>
     ELSE LET i == CHOOSE k \in slashes : \A j \in slashes : j <= k
          IN IF i = 1 THEN <<"/">> ELSE SubSeq(path, 1, i - 1)

\* validateLogFilePath: the error returned, or a panic: with an error that is
\* not ErrNotExist, stat is nil and stat.IsDir() dereferences it.
validateLogFilePath(path, stat) ==
  IF path = <<>>
  THEN [panic |-> FALSE, err |-> Errorf(ErrLogPathEmpty)]
  ELSE IF stat.err = "notexist"
  THEN [panic |-> FALSE, err |-> Errorf(ErrLogDirPrefix \o Dir(path))]
  ELSE IF stat.err # "none"
  THEN [panic |-> TRUE, err |-> NilErr]
  ELSE IF ~stat.isDir
  THEN [panic |-> FALSE, err |-> Errorf(ErrLogDirPrefix \o Dir(path))]
  ELSE [panic |-> FALSE, err |-> NilErr]

\* ------------------------------------------------------------ getLabelValue

Labels ==
  { [Name |-> "a", Value |-> "1"], [Name |-> "a", Value |-> "2"],
    [Name |-> "b", Value |-> "3"], [Name |-> "b", Value |-> ""] }
LabelNames == {"a", "b", "c"}
LabelSeqs == UNION { [1..n -> Labels] : n \in 0..MaxLabels }

\* Mutant of getLabelValueFrom: the loop does not stop at a match, so the
\* last one wins.
getLabelValueFrom_LastMatch(labels, name, i) ==
  LET m == {j \in i..Len(labels) : labels[j].Name = name}
  IN IF m = {} THEN ""
     ELSE labels[CHOOSE k \in m : \A j \in m : j <= k].Value

\* The loop of getLabelValue from index i on.
RECURSIVE getLabelValueFrom(_, _, _)
getLabelValueFrom(labels, name, i) ==
  IF i > Len(labels) THEN ""
  ELSE IF labels[i].Name = name THEN labels[i].Value
  ELSE getLabelValueFrom(labels, name, i + 1)

\* getLabelValue: the value returned and the labels as the call leaves them.
getLabelValue(labels, name) ==
  [value |-> getLabelValueFrom(labels, name, 1), labels |-> labels]

\* ------------------------------------------------- main: building the batch

\* What os.Hostname gives, and the successive readings of the clock.
HostOutcomes == { [failed |-> FALSE, name |-> "host1"], [failed |-> TRUE, name |-> ""] }
Clocks == { <<1000, 1001, 1002, 1003>>, <<7, 7, 8, 9>> }

\* Mutant of Hostname: a failed lookup leaves the empty name.
Hostname_NoSentinel(host) == host.name

\* Lines 431-435.
Hostname(host) == IF host.failed THEN "unknown" ELSE host.name

\* Mutant of BuildSeries: the clock is read for each series.
BuildSeries_ClockPerSeries(r, hostname, clock) ==
  << createTimeSeries(MetricNames[1], r.Download, clock[1], r.Server.URL, hostname),
     createTimeSeries(MetricNames[2], r.Upload, clock[2], r.Server.URL, hostname),
     createTimeSeries(MetricNames[3], r.Ping, clock[3], r.Server.URL, hostname),
     createTimeSeries(MetricNames[4], r.Jitter, clock[4], r.Server.URL, hostname) >>

\* Lines 439-444: one reading of the clock, then the four series.
BuildSeries(r, hostname, clock) ==
  LET now == clock[1]
  IN << createTimeSeries("librespeed_download_mbps", r.Download, now, r.Server.URL, hostname),
        createTimeSeries("librespeed_upload_mbps", r.Upload, now, r.Server.URL, hostname),
        createTimeSeries("librespeed_ping_ms", r.Ping, now, r.Server.URL, hostname),
        createTimeSeries("librespeed_jitter_ms", r.Jitter, now, r.Server.URL, hostname) >>

\* Lines 425-444 of main: run the tool, exit on error, else build the batch.
MainPipeline(localJSONPath, serverID, run, host, clock) ==
  LET r == runLibrespeed(localJSONPath, serverID, run)
  IN IF ~r.err.nil
     THEN [exit |-> 1, result |-> r.result, series |-> <<>>]
     ELSE [exit |-> 0, result |-> r.result,
           series |-> BuildSeries(r.result.val, Hostname(host), clock)]

\* ------------------------------------------ the functions called on their own

RunCalls ==
  { [fn |-> "runLibrespeed", localJSONPath |-> p, serverID |-> id, run |-> r] :
      p \in LocalJSONPaths, id \in ServerIDs, r \in RunOutcomes }
MainCalls ==
  { [fn |-> "main", localJSONPath |-> p, serverID |-> [present |-> TRUE, id |-> 1],
     run |-> r, host |-> h, clock |-> c] :
      p \in LocalJSONPaths, r \in RunOutcomes, h \in HostOutcomes, c \in Clocks }
SeriesCalls ==
  { [fn |-> "createTimeSeries", metric |-> m, value |-> v, ts |-> t,
     serverURL |-> u, instance |-> i] :
      m \in {"librespeed_ping_ms", ""}, v \in {0 - 5, 0, 7}, t \in {0, 1000},
      u \in {"", "http://a.example"}, i \in {"", "host1"} }
LabelCalls ==
  { [fn |-> "getLabelValue", labels |-> l, name |-> n] :
      l \in LabelSeqs, n \in LabelNames }

LogCalls ==
  { [fn |-> "validateLogFilePath", path |-> p, stat |-> st] :
      p \in LogPaths, st \in StatOutcomes }

InitCalls ==
  /\ pc = "arg"
  /\ \/ call \in RunCalls
     \/ call \in LogCalls
     \/ call \in MainCalls
     \/ call \in SeriesCalls
     \/ call \in LabelCalls
  /\ ret = NoRet
  /\ attempt = 0
  /\ url = [valid |-> TRUE, port |-> 9090]
  /\ username = <<>>
  /\ password = <<>>
  /\ series = Batch(0)
  /\ maxRetries = 0
  /\ marshal = NilErr
  /\ lastErr = NilErr
  /\ delay = {}
  /\ result = NoResult
  /\ trace = <<>>

retryVars == <<retryArgs, attempt, lastErr, delay, result, trace>>

CallRunLibrespeed ==
  /\ pc = "arg"
  /\ call.fn = "runLibrespeed"
  /\ ret' = runLibrespeed(call.localJSONPath, call.serverID, call.run)
  /\ pc' = "returned"
  /\ UNCHANGED <<call, retryVars>>

CallMain ==
  /\ pc = "arg"
  /\ call.fn = "main"
  /\ ret' = MainPipeline(call.localJSONPath, call.serverID, call.run, call.host, call.clock)
  /\ pc' = "returned"
  /\ UNCHANGED <<call, retryVars>>

CallCreateTimeSeries ==
  /\ pc = "arg"
  /\ call.fn = "createTimeSeries"
  /\ ret' = createTimeSeries(call.metric, call.value, call.ts, call.serverURL, call.instance)
  /\ pc' = "returned"
  /\ UNCHANGED <<call, retryVars>>

CallGetLabelValue ==
  /\ pc = "arg"
  /\ call.fn = "getLabelValue"
  /\ ret' = getLabelValue(call.labels, call.name)
  /\ pc' = "returned"
  /\ UNCHANGED <<call, retryVars>>

CallValidateLogFilePath ==
  /\ pc = "arg"
  /\ call.fn = "validateLogFilePath"
  /\ ret' = validateLogFilePath(call.path, call.stat)
  /\ pc' = "returned"
  /\ UNCHANGED <<call, retryVars>>

NextCalls ==
  \/ CallValidateLogFilePath
  \/ CallRunLibrespeed
  \/ CallMain
  \/ CallCreateTimeSeries
  \/ CallGetLabelValue

SpecCalls == InitCalls /\ [][NextCalls]_vars

ReturnedFrom(fn) == pc = "returned" /\ call.fn = fn

\* ------------------------------------------------------- the whole process

ErrUrlRequired == <<"r","e","m","o","t","e"," ","w","r","i","t","e"," ","U","R","L"," ","i","s"," ","r","e","q","u","i","r","e","d">>
ErrUsernameRequired == <<"u","s","e","r","n","a","m","e"," ","i","s"," ","r","e","q","u","i","r","e","d">>
ErrPasswordRequired == <<"p","a","s","s","w","o","r","d"," ","i","s"," ","r","e","q","u","i","r","e","d">>
ErrUrlFormatPrefix == <<"i","n","v","a","l","i","d"," ","r","e","m","o","t","e"," ","w","r","i","t","e"," ","U","R","L"," ","f","o","r","m","a","t",":"," ">>

\* The retries main asks for.
MainMaxRetries == 3

\* The -url flag: not given (empty), or one of the model's URLs.
UrlFlags ==
  { [given |-> FALSE, u |-> [valid |-> TRUE, port |-> 9090]],
    [given |-> TRUE, u |-> [valid |-> TRUE, port |-> 9090]],
    [given |-> TRUE, u |-> [valid |-> FALSE, port |-> 9090]] }

\* The command line: -logfile, -url, -username, -password, -local-json and
\* -server-id (which always has a value).
CommandLines ==
  { [fn |-> "process", logfile |-> l, url |-> u, username |-> n, password |-> p,
     localJSONPath |-> <<>>, serverID |-> [present |-> TRUE, id |-> 1]] :
      l \in {<<>>, <<"/","d","/","x",".","l","o","g">>}, u \in UrlFlags,
      n \in {<<>>, <<"u">>}, p \in {<<>>, <<"p">>} }

\* What the tool gives main's run: a failure, `invalid json`, `null`, `[]`,
\* or an array of one result object.
MainRunOutcomes ==
  { r \in RunOutcomes :
      \/ ~r.err.nil /\ r.output.kind = "garbage"
      \/ r.err.nil /\ r.output.kind \in {"garbage", "null"}
      \/ /\ r.err.nil
         /\ r.output.kind = "array"
         /\ Len(r.output.elems) <= 1
         /\ \A i \in 1..Len(r.output.elems) :
              r.output.elems[i].kind = "object" /\ r.output.elems[i].id = 1 }

\* The clock readings of main's run.
MainClock == <<1000, 1001, 1002, 1003>>

\* Mutant of validateConfiguration: the password is not looked at.
validateConfiguration_NoPasswordCheck(remoteWriteURL, user, pass) ==
  IF ~remoteWriteURL.given THEN Errorf(ErrUrlRequired)
  ELSE IF user = <<>> THEN Errorf(ErrUsernameRequired)
  ELSE IF ~remoteWriteURL.u.valid
  THEN Errorf(ErrUrlFormatPrefix \o ParsePrefix \o UrlText(remoteWriteURL.u) \o ParseSuffix)
  ELSE NilErr

\* validateConfiguration.  The well-formed URLs of the model have the scheme
\* http and a host, so the checks of lines 365-371 pass for them.
validateConfiguration(remoteWriteURL, user, pass) ==
  IF ~remoteWriteURL.given THEN Errorf(ErrUrlRequired)
  ELSE IF user = <<>> THEN Errorf(ErrUsernameRequired)
  ELSE IF pass = <<>> THEN Errorf(ErrPasswordRequired)
  ELSE IF ~remoteWriteURL.u.valid
  THEN Errorf(ErrUrlFormatPrefix \o ParsePrefix \o UrlText(remoteWriteURL.u) \o ParseSuffix)
  ELSE NilErr

\* Mutant of RunAborts: main goes on after a failed run.
RunAborts_Never(r) == FALSE

\* Lines 426-429: main exits when runLibrespeed returned an error.
RunAborts(r) == ~r.err.nil

StepEvent(name, success) ==
  [ev |-> "step", stage |-> name, code |-> 0, ok |-> success, req |-> NoRequest,
   accepted |-> FALSE]

InitMain ==
  /\ pc = "main"
  /\ call \in CommandLines
  /\ ret = NoRet
  /\ attempt = 0
  /\ url = [valid |-> TRUE, port |-> 9090]
  /\ username = <<>>
  /\ password = <<>>
  /\ series = <<>>
  /\ maxRetries = 0
  /\ marshal = NilErr
  /\ lastErr = NilErr
  /\ delay = {}
  /\ result = NoResult
  /\ trace = <<>>

loopVars == <<retryArgs, attempt, lastErr, delay, result>>

\* Lines 389-393: the log path is validated; a panic ends the process with
\* status 2.
StepValidateLog ==
  /\ pc = "main"
  /\ \E stat \in StatOutcomes :
       LET v == validateLogFilePath(call.logfile, stat) IN
       /\ pc' = IF v.panic THEN "exit2" ELSE IF ~v.err.nil THEN "exit1" ELSE "openlog"
       /\ trace' = Append(trace, StepEvent("validateLog", ~v.panic /\ v.err.nil))
  /\ UNCHANGED <<loopVars, pureVars>>

\* Lines 395-400: the log file is opened.
StepOpenLog ==
  /\ pc = "openlog"
  /\ \E opened \in BOOLEAN :
       /\ pc' = IF opened THEN "config" ELSE "exit1"
       /\ trace' = Append(trace, StepEvent("openLog", opened))
  /\ UNCHANGED <<loopVars, pureVars>>

\* Lines 410-415.
StepValidateConfig ==
  /\ pc = "config"
  /\ LET e == validateConfiguration(call.url, call.username, call.password) IN
       /\ pc' = IF e.nil THEN "ensure" ELSE "exit1"
       /\ trace' = Append(trace, StepEvent("validateConfig", e.nil))
  /\ UNCHANGED <<loopVars, pureVars>>

\* Lines 419-423: the tool is found or installed.
StepEnsureCLI ==
  /\ pc = "ensure"
  /\ \E found \in BOOLEAN :
       /\ pc' = IF found THEN "run" ELSE "exit1"
       /\ trace' = Append(trace, StepEvent("ensure", found))
  /\ UNCHANGED <<loopVars, pureVars>>

\* Lines 425-429: the tool is run and its output parsed.
StepRun ==
  /\ pc = "run"
  /\ \E run \in MainRunOutcomes :
       LET r == runLibrespeed(call.localJSONPath, call.serverID, run) IN
       /\ ret' = [set |-> TRUE, run |-> run, out |-> r, host |-> [failed |-> FALSE, name |-> ""]]
       /\ pc' = IF RunAborts(r) THEN "exit1" ELSE "build"
       /\ trace' = Append(trace, StepEvent("run", r.err.nil))
  /\ UNCHANGED <<loopVars, call>>

\* Lines 431-446: the hostname is looked up, the batch is built and
\* sendToRemoteWriteWithRetry is entered.
StepBuild ==
  /\ pc = "build"
  /\ \E host \in HostOutcomes :
       /\ series' = BuildSeries(ret.out.result.val, Hostname(host), MainClock)
       /\ ret' = [ret EXCEPT !.host = host]
       /\ trace' = Append(trace, StepEvent("build", ~host.failed))
  /\ url' = call.url.u
  /\ username' = call.username
  /\ password' = call.password
  /\ maxRetries' = MainMaxRetries
  /\ pc' = "loop"
  /\ UNCHANGED <<marshal, attempt, lastErr, delay, result, call>>

\* Lines 446-453: the exit status after the delivery.
StepExit ==
  /\ pc = "done"
  /\ pc' = IF result.err.nil THEN "exit0" ELSE "exit1"
  /\ UNCHANGED <<loopVars, trace, pureVars>>

NextMain ==
  \/ StepValidateLog
  \/ StepOpenLog
  \/ StepValidateConfig
  \/ StepEnsureCLI
  \/ StepRun
  \/ StepBuild
  \/ Backoff
  \/ Attempt
  \/ ReturnFailed
  \/ StepExit

SpecMain == InitMain /\ [][NextMain]_vars

\* ---------------------------------------------------- reading the history

IsAttempt(e) == e.ev = "attempt"
IsSleep(e) == e.ev = "sleep"
\* The attempts made so far (calls of sendToRemoteWrite), in order.
Attempts == SelectSeq(trace, IsAttempt)
NumAttempts == Len(Attempts)
NumSleeps == Len(SelectSeq(trace, IsSleep))
\* The attempt got as far as handing a request to the HTTP client.
RequestSent(e) == e.ev = "attempt" /\ e.stage \in {"transport", "response"}
\* The attempt got as far as building the HTTP request.
RequestCreated(e) == RequestSent(e)
\* The attempt was answered with status code c.
Answered(e, c) == e.ev = "attempt" /\ e.stage = "response" /\ e.code = c
Succeeded(e) == e.ev = "attempt" /\ e.stage = "response" /\ e.code < 300
ReturnedError == pc = "done" /\ result.set /\ ~result.err.nil
ReturnedSuccess == pc = "done" /\ result.set /\ result.err.nil
NonRetryableCodes == {400, 401, 403, 404}

\* ------------------------------------------------------------------ claims

\* C1: with maxRetries = N >= 0 and an endpoint answering HTTP 500 to every
\* request, the call makes exactly N+1 attempts and then returns an error.
C1_Always500MakesNPlus1Attempts ==
  (/\ pc = "done"
   /\ maxRetries >= 0
   /\ \A i \in 1..Len(Attempts) : Answered(Attempts[i], 500))
  => (NumAttempts = maxRetries + 1 /\ ReturnedError)

\* C2: an attempt answered with 400, 401, 403 or 404 is the last event of the
\* call (no further attempt, no further delay); the call then returns an
\* error whose text contains that status code.
C2_ClientErrorStatusEndsTheCall ==
  \A i \in 1..Len(trace) :
    \A c \in NonRetryableCodes :
      Answered(trace[i], c) =>
        /\ i = Len(trace)
        /\ pc \in {"break", "done"}
        /\ pc = "done" => (ReturnedError /\ Contains(result.err.text, NatText(c)))

\* C2 witness: 403 on the first attempt with maxRetries = 3: one attempt.
C2_Witness ==
  /\ pc = "done"
  /\ maxRetries = 3
  /\ Len(trace) = 1
  /\ Answered(trace[1], 403)
  /\ ReturnedError

\* C3: if every attempt fails with a transport error (malformed URL,
\* connection failure, timeout), the call with maxRetries = N >= 0 makes
\* exactly N+1 attempts before it returns the error.
C3_TransportErrorsMakeNPlus1Attempts ==
  (/\ pc = "done"
   /\ maxRetries >= 0
   /\ \A i \in 1..Len(Attempts) : Attempts[i].stage \in {"newrequest", "transport"})
  => (NumAttempts = maxRetries + 1 /\ ReturnedError)

\* C4: after a failed attempt answered with a status >= 300 other than 400,
\* 401, 403, 404, while attempts remain, the loop goes on to a retry.
C4_OtherStatusIsRetried ==
  (/\ Len(trace) > 0
   /\ trace[Len(trace)].ev = "attempt"
   /\ trace[Len(trace)].stage = "response"
   /\ trace[Len(trace)].code >= 300
   /\ trace[Len(trace)].code \notin NonRetryableCodes
   /\ NumAttempts <= maxRetries)
  => pc = "loop"

\* C5: the error the call returns states the number of attempts actually
\* made and carries the error of the last attempt.
C5_ErrorStatesAttemptsMade ==
  ReturnedError =>
    result.err.text =
      ErrFailedAfter \o IntText(NumAttempts) \o ErrAttemptsLast \o ErrText(lastErr)

\* C6: a successful attempt is the last event of the call, which returns
\* success at once; and the call returns success only after an attempt that
\* succeeded.
C6_SuccessAtFirstSuccessfulAttempt ==
  /\ \A i \in 1..Len(trace) :
       Succeeded(trace[i]) => (i = Len(trace) /\ ReturnedSuccess)
  /\ (result.set /\ result.err.nil) =>
       (Len(trace) > 0 /\ Succeeded(trace[Len(trace)]))

\* C6 witness: HTTP 200 on the first attempt: one request, no delay, success.
C6_Witness ==
  /\ ReturnedSuccess
  /\ maxRetries = 3
  /\ Len(trace) = 1
  /\ Answered(trace[1], 200)

\* C7: with a batch of zero series every attempt fails with the empty-batch
\* error before a request is created or sent, and the call never succeeds.
C7_EmptyBatchNeverReachesNetwork ==
  Len(series) = 0 =>
    /\ \A i \in 1..Len(trace) :
         IsAttempt(trace[i]) =>
           (trace[i].stage = "empty" /\ ~RequestCreated(trace[i]) /\ ~RequestSent(trace[i]))
    /\ NumAttempts > 0 => lastErr = Errorf(ErrEmptyBatch)
    /\ ~(result.set /\ result.err.nil)

\* C7 witness: an empty batch went through a delivery attempt.
C7_Witness ==
  /\ Len(series) = 0
  /\ NumAttempts >= 1
  /\ ReturnedError

\* C8: with an empty batch the call makes exactly one attempt, waits no
\* delay and returns the error, for every maxRetries >= 0.
C8_EmptyBatchAbortsRetries ==
  (pc = "done" /\ Len(series) = 0 /\ maxRetries >= 0)
  => (NumAttempts = 1 /\ NumSleeps = 0 /\ ReturnedError)

\* C9: when an attempt fails in the marshal step the call makes no further
\* attempt: it returns after that single attempt.
C9_MarshalErrorIsNotRetried ==
  \A i \in 1..Len(trace) :
    (IsAttempt(trace[i]) /\ trace[i].stage = "marshal") => i = Len(trace)

\* C10: for 1 <= a <= 62 retryDelayFunc(a) is min(30, x) seconds for some x
\* with 2^(a-1) <= x < 2^a: exactly 1 for a = 1, exactly 30 for a >= 6 (every
\* such x is then at least 32).
C10_DelayIsCappedJitteredPowerOfTwo ==
  (pc # "arg" /\ attempt >= 1 /\ attempt <= 62) =>
    /\ pc = "delayed"
    /\ attempt = 1 => delay = FromNat(1)
    /\ attempt <= 5 =>
         \E x \in Pow2(attempt - 1)..(Pow2(attempt) - 1) :
           delay = FromNat(IF x > 30 THEN 30 ELSE x)
    /\ attempt >= 6 => delay = FromNat(30)

\* C10 witness: the delay for the largest index of the claim.
C10_Witness ==
  pc = "delayed" /\ attempt = 62 /\ delay = FromNat(30)

\* C11: for every retry index the delay is computed without a crash and is
\* strictly positive and at most 30 seconds.
C11_DelayComputedPositiveAtMost30 ==
  pc # "arg" =>
    /\ pc = "delayed"
    /\ Gt64(delay, {})
    /\ ~Gt64(delay, FromNat(30))

\* C12: an attempt that received a response reports success exactly when the
\* status code is in [200,300).
C12_SuccessIffStatus2xx ==
  \A i \in 1..Len(trace) :
    (IsAttempt(trace[i]) /\ trace[i].stage = "response") =>
      (trace[i].ok <=> (trace[i].code >= 200 /\ trace[i].code < 300))

\* The fixed properties of a request sent: method and the three headers.
PostWithHeaders(req) ==
  /\ req.method = "POST"
  /\ req.ContentEncoding = "snappy"
  /\ req.ContentType = "application/x-protobuf"
  /\ req.RemoteWriteVersion = "0.1.0"

\* The credentials the receiving server reads are the caller's.
CallerCredentials(req) ==
  BasicAuth(req.Authorization) = [ok |-> TRUE, username |-> username, password |-> password]

\* C13 as stated: every request sent, first attempt or retry, is a POST with
\* the three headers and carries basic-auth credentials equal to the
\* caller's username and password.
C13_EveryRequestCarriesCallerCredentials ==
  \A i \in 1..Len(trace) :
    RequestSent(trace[i]) =>
      (PostWithHeaders(trace[i].req) /\ CallerCredentials(trace[i].req))

\* C13 amended: every request sent, first attempt or retry, is a POST with
\* the three headers and the Authorization header Basic base64(username ':'
\* password); the credentials read from it are the caller's whenever the
\* username holds no colon.
C13_EveryRequestCarriesBasicAuthHeader ==
  \A i \in 1..Len(trace) :
    RequestSent(trace[i]) =>
      /\ PostWithHeaders(trace[i].req)
      /\ trace[i].req.Authorization.scheme = "Basic"
      /\ trace[i].req.Authorization.credentials = username \o <<":">> \o password
      /\ (\A k \in 1..Len(username) : username[k] # ":") => CallerCredentials(trace[i].req)

\* C13 witness: a first attempt and a retry both sent a request, for a
\* username without a colon.
C13_Witness ==
  /\ \A k \in 1..Len(username) : username[k] # ":"
  /\ Len(trace) = 3
  /\ RequestSent(trace[1])
  /\ RequestSent(trace[3])
  /\ CallerCredentials(trace[3].req)

\* The tool's output is an array of k >= 1 result objects.
IsResultArray(output) ==
  /\ output.kind = "array"
  /\ Len(output.elems) >= 1
  /\ \A i \in 1..Len(output.elems) : output.elems[i].kind = "object"

IsParseError(e) == ~e.nil /\ HasPrefix(ErrText(e), ErrParsePrefix)
IsEmptyResultError(e) == ~e.nil /\ ErrText(e) = ErrNoResults
IsExecutionError(e) == ~e.nil /\ HasPrefix(ErrText(e), ErrRunPrefix)

\* C14: when the runner succeeds and its output is an array of k >= 1 result
\* objects, runLibrespeed returns no error and the result whose download,
\* upload, ping, jitter and server URL are those of the first element.
C14_FirstElementIsTheResult ==
  (ReturnedFrom("runLibrespeed") /\ call.run.err.nil /\ IsResultArray(call.run.output)) =>
    LET first == call.run.output.elems[1]
    IN /\ ret.err.nil
       /\ ~ret.result.nil
       /\ ret.result.val.Download = first.download
       /\ ret.result.val.Upload = first.upload
       /\ ret.result.val.Ping = first.ping
       /\ ret.result.val.Jitter = first.jitter
       /\ ret.result.val.Server.URL = first.url

\* C14 witness: an array of two different result objects gave the first.
C14_Witness ==
  /\ ReturnedFrom("runLibrespeed")
  /\ call.run.err.nil
  /\ IsResultArray(call.run.output)
  /\ Len(call.run.output.elems) = 2
  /\ call.run.output.elems[1].download # call.run.output.elems[2].download
  /\ ret.err.nil
  /\ ret.result.val.Download = call.run.output.elems[1].download

\* C15: output that is not a JSON array gives the parse error, and the
\* empty-result error is given exactly when the output is an array with zero
\* elements; in both cases no result is returned.
C15_BadOutputClassified ==
  (ReturnedFrom("runLibrespeed") /\ call.run.err.nil) =>
    /\ call.run.output.kind # "array" => (IsParseError(ret.err) /\ ret.result.nil)
    /\ IsEmptyResultError(ret.err) <=>
         (call.run.output.kind = "array" /\ Len(call.run.output.elems) = 0)
    /\ IsEmptyResultError(ret.err) => ret.result.nil

\* C16: when the runner returns an error, runLibrespeed returns an error and
\* no result without parsing the output, and the error is neither a parse
\* error nor an empty-result error.
C16_RunnerErrorIsExecutionError ==
  (ReturnedFrom("runLibrespeed") /\ ~call.run.err.nil) =>
    /\ IsExecutionError(ret.err)
    /\ ret.result.nil
    /\ ~ret.parsed
    /\ ~IsParseError(ret.err)
    /\ ~IsEmptyResultError(ret.err)

\* C16 witness: the runner gave an error together with a valid result array.
C16_Witness ==
  /\ ReturnedFrom("runLibrespeed")
  /\ ~call.run.err.nil
  /\ IsResultArray(call.run.output)
  /\ IsExecutionError(ret.err)

LocalJsonArgs(path) == IF path # <<>> THEN <<ArgLocalJson, path>> ELSE <<>>
ServerArgs(serverID) == <<ArgServer, IntText(serverID.id)>>

\* C17 as stated: the arguments are the four base arguments, then
\* '--local-json <path>' exactly when the path is non-empty, then
\* '--server <id>' exactly when the server ID is present.
C17_ServerIdAloneTogglesServer ==
  ReturnedFrom("runLibrespeed") =>
    ret.args = BaseArgs \o LocalJsonArgs(call.localJSONPath)
                 \o (IF call.serverID.present THEN ServerArgs(call.serverID) ELSE <<>>)

\* C17 amended: the arguments are the four base arguments, then
\* '--local-json <path>' exactly when the path is non-empty, then
\* '--server <id>' exactly when the server ID is present and the path is
\* non-empty.
C17_ServerNeedsIdAndPath ==
  ReturnedFrom("runLibrespeed") =>
    ret.args = BaseArgs \o LocalJsonArgs(call.localJSONPath)
                 \o (IF call.serverID.present /\ call.localJSONPath # <<>>
                     THEN ServerArgs(call.serverID) ELSE <<>>)

\* C17 witness: a server ID with a path gave '--server 25' after the path.
C17_Witness ==
  /\ ReturnedFrom("runLibrespeed")
  /\ call.serverID.present
  /\ call.localJSONPath # <<>>
  /\ Len(ret.args) = 8
  /\ ret.args[7] = ArgServer
  /\ ret.args[8] = <<"2", "5">>

\* C18: the batch built from a result has exactly four series, in the order
\* download, upload, ping, jitter, each with one sample whose value is the
\* result's field, all with the one timestamp read at build time, the
\* result's server URL and the same instance label.
C18_BatchOfFourSharesTimestampAndLabels ==
  (ReturnedFrom("main") /\ ret.exit = 0) =>
    LET b == ret.series
        r == ret.result.val
        fields == <<r.Download, r.Upload, r.Ping, r.Jitter>>
    IN /\ Len(b) = 4
       /\ \A i \in 1..4 :
            /\ getLabelValue(b[i].Labels, "__name__").value = MetricNames[i]
            /\ Len(b[i].Samples) = 1
            /\ b[i].Samples[1].Value = fields[i]
            /\ b[i].Samples[1].Timestamp = call.clock[1]
            /\ getLabelValue(b[i].Labels, "server_url").value = r.Server.URL
            /\ getLabelValue(b[i].Labels, "instance").value
                 = getLabelValue(b[1].Labels, "instance").value

\* C18 witness: a batch was built from a result with four different fields
\* while the clock moved on.
C18_Witness ==
  /\ ReturnedFrom("main")
  /\ ret.exit = 0
  /\ Len(ret.series) = 4
  /\ call.clock[1] # call.clock[2]
  /\ Cardinality({ret.series[i].Samples[1].Value : i \in 1..4}) = 4

\* C19: createTimeSeries returns exactly the labels __name__ = metric,
\* server_url = serverURL, instance = instance in this order and exactly one
\* sample (value, ts), the value unchanged also when negative.
C19_ThreeLabelsOneSample ==
  ReturnedFrom("createTimeSeries") =>
    /\ Len(ret.Labels) = 3
    /\ ret.Labels[1] = [Name |-> "__name__", Value |-> call.metric]
    /\ ret.Labels[2] = [Name |-> "server_url", Value |-> call.serverURL]
    /\ ret.Labels[3] = [Name |-> "instance", Value |-> call.instance]
    /\ Cardinality({ret.Labels[i].Name : i \in 1..3}) = 3
    /\ Len(ret.Samples) = 1
    /\ ret.Samples[1] = [Value |-> call.value, Timestamp |-> call.ts]

\* C19 witness: a series was built for a negative value.
C19_Witness ==
  /\ ReturnedFrom("createTimeSeries")
  /\ call.value < 0
  /\ ret.Samples[1].Value = call.value

\* C20: getLabelValue returns the value of the first label whose name is
\* the one asked for, the empty string when there is none, and leaves the
\* labels as they were.
C20_FirstMatchOrEmpty ==
  ReturnedFrom("getLabelValue") =>
    LET m == {i \in 1..Len(call.labels) : call.labels[i].Name = call.name}
    IN /\ ret.labels = call.labels
       /\ m = {} => ret.value = ""
       /\ m # {} => ret.value = call.labels[CHOOSE k \in m : \A j \in m : k <= j].Value

\* C20 witness: two labels of the name asked for, with different values.
C20_Witness ==
  /\ ReturnedFrom("getLabelValue")
  /\ \E i, j \in 1..Len(call.labels) :
       /\ i < j
       /\ call.labels[i].Name = call.name
       /\ call.labels[j].Name = call.name
       /\ call.labels[i].Value # call.labels[j].Value
       /\ \A k \in 1..(i - 1) : call.labels[k].Name # call.name
       /\ ret.value = call.labels[i].Value

\* The positions of the trace at which a request was sent.
SentAt == {i \in 1..Len(trace) : RequestSent(trace[i])}

\* C24: every request sent during one call carries the complete batch, the
\* caller's series in their order with their labels, values and timestamps,
\* and the batch of a retry is the batch of the first attempt.
C24_EveryRequestCarriesTheWholeBatch ==
  \A i \in SentAt :
    /\ trace[i].req.body.Timeseries = series
    /\ \A j \in SentAt : trace[j].req.body = trace[i].req.body

\* C24 witness: a batch of two series was sent on a first attempt and on a
\* retry.
C24_Witness ==
  /\ Len(series) = 2
  /\ Cardinality(SentAt) >= 2
  /\ \A i \in SentAt : Len(trace[i].req.body.Timeseries) = 2

\* C25: attempts and delays alternate, beginning with an attempt; a delay
\* is one retryDelayFunc computed for the retry index and is followed by an
\* attempt; nothing is waited after the last attempt or after a
\* non-retryable failure.
C25_AttemptsAndDelaysAlternate ==
  /\ \A i \in 1..Len(trace) :
       IF i % 2 = 1 THEN IsAttempt(trace[i]) ELSE IsSleep(trace[i])
  /\ pc = "send" =>
       /\ trace # <<>>
       /\ IsSleep(trace[Len(trace)])
       /\ attempt = NumAttempts
       /\ \E jitter \in IntnValues(Shl1(attempt - 1)) :
            delay = retryDelayFunc(attempt, jitter)
  /\ (pc \in {"break", "done"} /\ trace # <<>>) => IsAttempt(trace[Len(trace)])

\* C25 witness: the call returned after attempt, delay, attempt, delay,
\* attempt.
C25_Witness ==
  /\ pc = "done"
  /\ Len(trace) = 5
  /\ NumSleeps = 2
  /\ IsAttempt(trace[5])

\* How many attempts the endpoint took the batch in.
NumAccepted == Cardinality({i \in 1..Len(trace) : trace[i].accepted})
\* An attempt was reported as a transport failure after the endpoint had
\* taken the batch in.
LostResponse ==
  \E i \in 1..Len(trace) : trace[i].stage = "transport" /\ trace[i].accepted

C29_AtLeastOneAttempt ==
  /\ pc = "done" => NumAttempts >= 1
  /\ NumAttempts <= (IF maxRetries + 1 > 1 THEN maxRetries + 1 ELSE 1)

CapSeconds == FromNat(MaxBackoffSeconds)

\* C30: the delay before retry a+1 is at least the delay before retry a,
\* greater while both are below the cap, and 30 seconds once the one
\* before was.
C30_DelaysNonDecreasing ==
  (pc = "delayed" /\ ret.set) =>
    /\ attempt = ret.attempt + 1
    /\ ~Gt64(ret.delay, delay)
    /\ (Gt64(CapSeconds, ret.delay) /\ Gt64(CapSeconds, delay)) => Gt64(delay, ret.delay)
    /\ ret.delay = CapSeconds => delay = CapSeconds

\* C30 witness: the delay before retry 5 was below the cap and the delay
\* before retry 6 is the cap.
C30_Witness ==
  /\ pc = "delayed"
  /\ ret.set
  /\ attempt = 6
  /\ Gt64(CapSeconds, ret.delay)
  /\ delay = CapSeconds

\* C27: validateLogFilePath never crashes; it returns an error for the empty
\* path and whenever the parent is not an existing directory (missing, a
\* regular file, or not inspectable), and no error when the parent is an
\* existing directory.
C27_LogPathValidatedWithoutCrash ==
  ReturnedFrom("validateLogFilePath") =>
    /\ ~ret.panic
    /\ ret.err.nil <=>
         (call.path # <<>> /\ call.stat.err = "none" /\ call.stat.isDir)

\* The steps of main taken so far.
StepDone(name) == \E i \in 1..Len(trace) : trace[i].ev = "step" /\ trace[i].stage = name
StepFailed(name) ==
  \E i \in 1..Len(trace) : trace[i].ev = "step" /\ trace[i].stage = name /\ ~trace[i].ok
Exited == pc \in {"exit0", "exit1", "exit2"}
ConfigMissing == ~call.url.given \/ call.username = <<>> \/ call.password = <<>>
InstanceLabels == {getLabelValue(series[i].Labels, "instance").value : i \in 1..Len(series)}

\* C21: with the URL, the username or the password missing the process
\* never provisions or runs the tool, builds no batch and sends no request,
\* and configuration validation ends it with a non-zero status.
C21_MissingConfigExitsBeforeCoreLogic ==
  ConfigMissing =>
    /\ ~StepDone("ensure") /\ ~StepDone("run") /\ ~StepDone("build")
    /\ series = <<>>
    /\ NumAttempts = 0
    /\ StepDone("validateConfig") => pc = "exit1"
    /\ Exited => pc # "exit0"

\* C21 witness: configuration validation ended a run without password.
C21_Witness ==
  /\ call.url.given
  /\ call.username # <<>>
  /\ call.password = <<>>
  /\ StepDone("validateConfig")
  /\ pc = "exit1"

\* The tool's run gave no result: it failed, or its output is not an array
\* with a first result.
NoResultFromRun ==
  \/ ~ret.run.err.nil
  \/ ret.run.output.kind # "array"
  \/ Len(ret.run.output.elems) = 0

\* C22: when the tool fails or its output does not parse to a result the
\* process ends there, without a batch and without a request; an attempt is
\* made only after a successful parse.
C22_NoDeliveryWithoutResult ==
  /\ (StepDone("run") /\ NoResultFromRun) =>
       /\ pc = "exit1"
       /\ ~StepDone("build")
       /\ series = <<>>
       /\ trace[Len(trace)].stage = "run"
  /\ (NumAttempts > 0 \/ series # <<>>) =>
       /\ StepDone("run")
       /\ ~StepFailed("run")
       /\ ret.out.err.nil
       /\ ~ret.out.result.nil

\* C22 witness: the tool printed `null` and the process ended after the run.
C22_Witness ==
  /\ StepDone("run")
  /\ ret.run.err.nil
  /\ ret.run.output.kind = "null"
  /\ pc = "exit1"

AllStepsSucceeded ==
  /\ \A name \in {"validateLog", "openLog", "validateConfig", "ensure", "run", "build"} :
       StepDone(name)
  /\ \A i \in 1..Len(trace) : trace[i].ev = "step" => trace[i].ok \/ trace[i].stage = "build"
  /\ result.set
  /\ result.err.nil

\* C23: the process ends with status 0 exactly when log-path validation,
\* configuration validation, provisioning, the run and the delivery all
\* succeeded, and with status 1 when any of them failed.
C23_ExitZeroIffAllSucceeded ==
  Exited => (IF AllStepsSucceeded THEN pc = "exit0" ELSE pc = "exit1")

\* C26: after a failed hostname lookup all four series carry the instance
\* 'unknown' and the delivery is attempted; after a successful one they
\* carry the hostname found.
C26_HostnameFailureGivesUnknown ==
  StepDone("build") =>
    /\ Len(series) = 4
    /\ InstanceLabels = {IF ret.host.failed THEN "unknown" ELSE ret.host.name}
    /\ pc \in {"loop", "send", "break", "done", "exit0", "exit1"}
    /\ pc # "loop" => NumAttempts >= 1

\* C26 witness: the lookup failed and a request was sent for the batch
\* labelled 'unknown'.
C26_Witness ==
  /\ StepDone("build")
  /\ ret.host.failed
  /\ InstanceLabels = {"unknown"}
  /\ \E i \in 1..Len(trace) : RequestSent(trace[i])

====
